----------------------------- MODULE Spec2Model -----------------------------
(***************************************************************************)
(* Model of proj2_nps.py: the persistent response cache (load_cache,       *)
(* save_cache, make_url_request_using_cache) and the interactive session   *)
(* of the __main__ block (state prompt -> site list prompt -> nearby       *)
(* places), together with the scraping functions the session calls.       *)
(*                                                                         *)
(* Strings are sequences of chunks (a chunk is one character or one        *)
(* indivisible run of characters), so that concatenation, lower(), str()   *)
(* and JSON escaping are computed and not assumed.                         *)
(***************************************************************************)
EXTENDS Integers, Sequences, FiniteSets, TLC

\* ------------------------------------------------------------------ bounds
\* number of times the program is started on the same cache file
MaxRuns == 2
\* largest number of site links on a state listing page
MaxParks == 2
\* longest sequence of save_cache / load_cache calls of the round-trip harness
MaxOps == 3

\* ------------------------------------------------------- source constants
CACHE_FILE_NAME == <<"cache.json">>
baseurl == <<"https://www.nps.gov">>
endpoint_url == <<"http://www.mapquestapi.com/search/v2/radius">>

\* ----------------------------------------------------------- str helpers
\* str.lower() on one character
LowerChar(c) ==
  CASE c = "A" -> "a" [] c = "B" -> "b" [] c = "C" -> "c" [] c = "E" -> "e"
    [] c = "H" -> "h" [] c = "I" -> "i" [] c = "K" -> "k" [] c = "M" -> "m"
    [] c = "O" -> "o" [] c = "T" -> "t" [] c = "U" -> "u" [] c = "X" -> "x"
    [] c = "Z" -> "z"
    [] OTHER -> c

\* str.lower()
Lower(s) == [i \in 1..Len(s) |-> LowerChar(s[i])]

Digit(d) ==
  CASE d = 0 -> "0" [] d = 1 -> "1" [] d = 2 -> "2" [] d = 3 -> "3"
    [] d = 4 -> "4" [] d = 5 -> "5" [] d = 6 -> "6" [] d = 7 -> "7"
    [] d = 8 -> "8" [] OTHER -> "9"

RECURSIVE Str(_)
\* str(n) for a non-negative int
Str(n) == IF n < 10 THEN <<Digit(n)>> ELSE Str(n \div 10) \o <<Digit(n % 10)>>

\* ------------------------------------------------------- Python values
\* a value json.loads can return / json.dumps can take (containers hold scalars)
PyStr(s)   == [k |-> "str",  s |-> s,    items |-> <<>>]
PyNum(s)   == [k |-> "num",  s |-> s,    items |-> <<>>]
PyNone     == [k |-> "null", s |-> <<>>, items |-> <<>>]
PyList(xs) == [k |-> "list", s |-> <<>>, items |-> xs]
\* a dict is its items in insertion order: <<key, value>> pairs, keys unique
PyDict(kv) == [k |-> "dict", s |-> <<>>, items |-> kv]
EmptyDict  == PyDict(<<>>)

\* the same three operations on the bare <<key, value>> sequence of a dict
MapKeys(kv) == {kv[i][1] : i \in 1..Len(kv)}

MapGet(kv, key) ==
  LET i == CHOOSE j \in 1..Len(kv) : kv[j][1] = key
  IN  kv[i][2]

\* kv[key] = value : an existing key keeps its position, a new key is appended
MapSet(kv, key, value) ==
  IF key \in MapKeys(kv)
  THEN [i \in 1..Len(kv) |-> IF kv[i][1] = key THEN <<key, value>> ELSE kv[i]]
  ELSE Append(kv, <<key, value>>)

\* cache.keys()
Keys(d) == IF d.k = "dict" THEN MapKeys(d.items) ELSE {}

\* d[key], for key in d.keys()
Lookup(d, key) == MapGet(d.items, key)

\* d[key] = value
DictSet(d, key, value) == PyDict(MapSet(d.items, key, value))

\* dict equality of Python: same keys, same values, order ignored
DictEq(a, b) ==
  /\ a.k = "dict" /\ b.k = "dict"
  /\ Keys(a) = Keys(b)
  /\ \A key \in Keys(a) : Lookup(a, key) = Lookup(b, key)

\* equality of two Python values
PyEq(a, b) == IF a.k = "dict" /\ b.k = "dict" THEN DictEq(a, b) ELSE a = b

\* ------------------------------------------------------------------ json
\* A document is a sequence of JSON tokens; whitespace is not represented.
\* The payload of a "str" token is the text between the quotes, escaped.
Tok(t, v) == [t |-> t, v |-> v]
LBrace == Tok("{", <<>>)
RBrace == Tok("}", <<>>)
LBrack == Tok("[", <<>>)
RBrack == Tok("]", <<>>)
Colon  == Tok(":", <<>>)
Comma  == Tok(",", <<>>)
\* text that is no JSON token at all
Junk   == Tok("junk", <<>>)

RECURSIVE Escape(_)
\* json.dumps of the characters of a str: quote and backslash get a backslash
Escape(s) ==
  IF s = <<>> THEN <<>>
  ELSE (IF Head(s) = "\"" \/ Head(s) = "\\" THEN <<"\\", Head(s)>> ELSE <<Head(s)>>)
       \o Escape(Tail(s))

RECURSIVE Unescape(_)
\* json.loads of a string literal's text: ok is FALSE for a literal that the
\* decoder rejects (a bare quote, a backslash that escapes nothing)
Unescape(v) ==
  IF v = <<>> THEN [ok |-> TRUE, s |-> <<>>]
  ELSE IF Head(v) = "\"" THEN [ok |-> FALSE, s |-> <<>>]
  ELSE IF Head(v) = "\\"
       THEN IF Len(v) >= 2 /\ (v[2] = "\"" \/ v[2] = "\\")
            THEN LET r == Unescape(Tail(Tail(v)))
                 IN  [ok |-> r.ok, s |-> <<v[2]>> \o r.s]
            ELSE [ok |-> FALSE, s |-> <<>>]
  ELSE LET r == Unescape(Tail(v))
       IN  [ok |-> r.ok, s |-> <<Head(v)>> \o r.s]

\* json.JSONDecodeError
DecodeError == [ok |-> FALSE, val |-> PyNone]

\* the scalar a single token denotes
ScalarOf(tok) ==
  CASE tok.t = "str"  -> LET u == Unescape(tok.v)
                         IN  IF u.ok THEN [ok |-> TRUE, val |-> PyStr(u.s)]
                             ELSE DecodeError
    [] tok.t = "num"  -> [ok |-> TRUE, val |-> PyNum(tok.v)]
    [] tok.t = "null" -> [ok |-> TRUE, val |-> PyNone]
    [] OTHER          -> DecodeError

RECURSIVE ParseArray(_, _, _)
\* elements of a JSON array from token i on, acc holds the elements so far
ParseArray(doc, i, acc) ==
  IF i + 1 > Len(doc) THEN DecodeError
  ELSE LET e == ScalarOf(doc[i])
       IN  IF ~e.ok THEN DecodeError
           ELSE IF doc[i + 1].t = "]"
                THEN IF i + 1 = Len(doc)
                     THEN [ok |-> TRUE, val |-> PyList(Append(acc, e.val))]
                     ELSE DecodeError
           ELSE IF doc[i + 1].t = ","
                THEN ParseArray(doc, i + 2, Append(acc, e.val))
           ELSE DecodeError

RECURSIVE ParseObject(_, _, _)
\* members of a JSON object from token i on; a repeated key takes the last value
ParseObject(doc, i, acc) ==
  IF i + 3 > Len(doc) THEN DecodeError
  ELSE LET key == ScalarOf(doc[i])
           e   == ScalarOf(doc[i + 2])
       IN  IF ~key.ok \/ doc[i].t # "str" \/ doc[i + 1].t # ":" \/ ~e.ok
           THEN DecodeError
           ELSE IF doc[i + 3].t = "}"
                THEN IF i + 3 = Len(doc)
                     THEN [ok |-> TRUE, val |-> DictSet(acc, key.val.s, e.val)]
                     ELSE DecodeError
           ELSE IF doc[i + 3].t = ","
                THEN ParseObject(doc, i + 4, DictSet(acc, key.val.s, e.val))
           ELSE DecodeError

\* json.loads
Loads(doc) ==
  IF doc = <<>> THEN DecodeError
  ELSE IF doc[1].t = "{"
       THEN IF Len(doc) >= 2 /\ doc[2].t = "}"
            THEN IF Len(doc) = 2 THEN [ok |-> TRUE, val |-> EmptyDict]
                 ELSE DecodeError
            ELSE ParseObject(doc, 2, EmptyDict)
  ELSE IF doc[1].t = "["
       THEN IF Len(doc) >= 2 /\ doc[2].t = "]"
            THEN IF Len(doc) = 2 THEN [ok |-> TRUE, val |-> PyList(<<>>)]
                 ELSE DecodeError
            ELSE ParseArray(doc, 2, <<>>)
  ELSE IF Len(doc) = 1 THEN ScalarOf(doc[1]) ELSE DecodeError

\* json.dumps of a scalar
DumpScalar(v) ==
  CASE v.k = "str" -> Tok("str", Escape(v.s))
    [] v.k = "num" -> Tok("num", v.s)
    [] OTHER       -> Tok("null", <<>>)

RECURSIVE DumpMembers(_)
DumpMembers(kv) ==
  IF kv = <<>> THEN <<>>
  ELSE <<Tok("str", Escape(kv[1][1])), Colon, DumpScalar(kv[1][2])>>
       \o (IF Len(kv) > 1 THEN <<Comma>> ELSE <<>>) \o DumpMembers(Tail(kv))

RECURSIVE DumpElements(_)
DumpElements(xs) ==
  IF xs = <<>> THEN <<>>
  ELSE <<DumpScalar(xs[1])>>
       \o (IF Len(xs) > 1 THEN <<Comma>> ELSE <<>>) \o DumpElements(Tail(xs))

\* json.dumps
Dumps(v) ==
  CASE v.k = "dict" -> <<LBrace>> \o DumpMembers(v.items) \o <<RBrace>>
    [] v.k = "list" -> <<LBrack>> \o DumpElements(v.items) \o <<RBrack>>
    [] OTHER        -> <<DumpScalar(v)>>

\* ------------------------------------------------------------ cache file
\* The file named CACHE_FILE_NAME: mode "rw" (normal), "w" (not readable),
\* "r" (not writable) or "none" (neither).
File(mode, content) == [exists |-> TRUE, mode |-> mode, content |-> content]
NoFile == [exists |-> FALSE, mode |-> "rw", content |-> <<>>]

\* the try body of load_cache: open, read, json.loads
LoadTry(file) ==
  IF ~file.exists \/ file.mode \notin {"rw", "r"}
  THEN [raised |-> TRUE, cache |-> PyNone]
  ELSE LET r == Loads(file.content)
       IN  [raised |-> ~r.ok, cache |-> r.val]

\* variant: no except clause, a failure of the try body reaches the caller
load_cache_noexcept(file) ==
  LET t == LoadTry(file)
  IN  [raised |-> t.raised, cache |-> IF t.raised THEN EmptyDict ELSE t.cache]

\* load_cache(): the bare except turns every failure into an empty dict
load_cache(file) ==
  LET t == LoadTry(file)
  IN  IF t.raised THEN [raised |-> FALSE, cache |-> EmptyDict]
      ELSE [raised |-> FALSE, cache |-> t.cache]

\* variant: the file is opened with 'a', the dict is written after the old text
save_cache_append(cache, file) ==
  IF file.exists /\ file.mode \notin {"rw", "w"}
  THEN [raised |-> TRUE, file |-> file]
  ELSE [raised |-> FALSE,
        file |-> [exists |-> TRUE, mode |-> file.mode,
                  content |-> file.content \o Dumps(cache)]]

\* variant: the dict is serialised but never written
save_cache_nowrite(cache, file) ==
  IF file.exists /\ file.mode \notin {"rw", "w"}
  THEN [raised |-> TRUE, file |-> file]
  ELSE [raised |-> FALSE,
        file |-> [exists |-> TRUE, mode |-> file.mode, content |-> <<>>]]

\* save_cache(cache): open(CACHE_FILE_NAME, 'w') creates or truncates the
\* file, then the whole dict is written
save_cache(cache, file) ==
  IF file.exists /\ file.mode \notin {"rw", "w"}
  THEN [raised |-> TRUE, file |-> file]
  ELSE [raised |-> FALSE,
        file |-> [exists |-> TRUE, mode |-> file.mode, content |-> Dumps(cache)]]

\* the mapping a later load_cache would see in the file
Logical(file) == load_cache(file).cache

\* ------------------------------------------------------------ upstream
\* What the network can answer.  An HTML body is a sequence of chunks; an
\* element is the chunk naming its class / itemprop followed by its text.
Page(name, category, city, state, zipcode, phone) ==
  <<"<div class=", "\"", "Hero-titleContainer clearfix", "\"", ">",
    "Hero-title", name, "Hero-designation", category,
    "ParkFooter-contact", "addressLocality", city, "addressRegion", state,
    "postalCode", zipcode, "telephone", phone>>

PageIsle  == Page("Isle Royale", "National Park", "Houghton", "MI", "49931",
                  "(906) 482-0984")
\* a page whose title, designation and locality elements are empty
PageBlank == Page("", " ", "", "MI", "49862", "")
\* an error page: none of the expected elements
PageError == <<"<h1>", "Not Found", "\\", "</h1>">>

SiteBodies == {PageIsle, PageBlank, PageError}

SiteHrefs == {<<"/isro/index.htm">>, <<"/piro/index.htm">>}
SiteUrls  == {baseurl \o h : h \in SiteHrefs}

\* the bodies a site url can answer with; the content can change between
\* two requests of the same url
Upstream(url) ==
  IF url = baseurl \o <<"/isro/index.htm">> THEN {PageIsle, PageError}
  ELSE {PageBlank, PageError}

\* response.status_code of the response that carries the body
StatusOf(body) == IF body = PageError THEN "404" ELSE "200"

\* requests.get(url) for a site page: raises, or a response with a status
\* code and a body
SiteNet(url) ==
  {[raised |-> TRUE, status |-> "none", text |-> <<>>]}
    \cup {[raised |-> FALSE, status |-> StatusOf(b), text |-> b] : b \in Upstream(url)}

\* the home page: raises, has no state menu, or has a menu of <<name, href>>;
\* the menu names one state twice as written and one twice in lower case
Ohio == <<"O", "h", "i", "o">>
Utah == <<"U", "t", "a", "h">>
Texas == <<"T", "e", "x", "a", "s">>
Menus ==
  { << <<Ohio, <<"/state/oh/index.htm">> >>,
       <<Ohio, <<"/state/xx/index.htm">> >>,
       <<Lower(Utah), <<"/state/ut/index.htm">> >>,
       <<Lower(Utah), <<"/state/yy/index.htm">> >> >> }
HomeNet == {[raised |-> TRUE, menu |-> FALSE, items |-> <<>>],
            [raised |-> FALSE, menu |-> FALSE, items |-> <<>>]}
             \cup {[raised |-> FALSE, menu |-> TRUE, items |-> m] : m \in Menus}

RECURSIVE SeqsUpTo(_, _)
\* the sequences over S of length at most n
SeqsUpTo(S, n) ==
  IF n = 0 THEN {<<>>}
  ELSE LET T == SeqsUpTo(S, n - 1)
       IN  T \cup {Append(t, x) : t \in T, x \in S}

\* a state page: raises, has no list_parks element, or lists site links
StateNet == {[raised |-> TRUE, list |-> FALSE, hrefs |-> <<>>],
             [raised |-> FALSE, list |-> FALSE, hrefs |-> <<>>]}
              \cup {[raised |-> FALSE, list |-> TRUE, hrefs |-> hs] :
                      hs \in SeqsUpTo(SiteHrefs, MaxParks)}

\* places of the MapQuest answer
Place(name, category, address, city) ==
  [name |-> name,
   fields |-> [group_sic_code_name |-> category, address |-> address, city |-> city]]
Diner  == Place(<<"Suomi">>, <<"Restaurants">>, <<"54 Huron St">>, <<"Houghton">>)
Nameless == Place(<<"Kiosk">>, <<>>, <<>>, <<>>)
\* the places API: raises, answers something that is not JSON, JSON without
\* 'searchResults', or JSON with a 'searchResults' list
PlacesNet ==
  {[raised |-> TRUE,  json |-> FALSE, has |-> FALSE, searchResults |-> <<>>],
   [raised |-> FALSE, json |-> FALSE, has |-> FALSE, searchResults |-> <<>>],
   [raised |-> FALSE, json |-> TRUE,  has |-> FALSE, searchResults |-> <<>>]}
    \cup {[raised |-> FALSE, json |-> TRUE, has |-> TRUE, searchResults |-> ps] :
            ps \in {<<>>, <<Nameless, Diner>>}}

\* what the user can type at the two prompts
exit == <<"e", "x", "i", "t">>
back == <<"b", "a", "c", "k">>
StateInputs  == {exit, <<"E", "x", "i", "t">>, Ohio, Texas}
NumberInputs == {exit, <<"E", "X", "I", "T">>, back, <<"B", "a", "c", "k">>,
                 <<"0", "1">>} \cup {Str(i) : i \in 1..MaxParks}

\* the cache files the program can find when it starts
Url1 == baseurl \o <<"/isro/index.htm">>
\* a site url no initial cache file holds
Url2 == baseurl \o <<"/piro/index.htm">>
\* the url the index holds for 'ohio'
UrlOhio == baseurl \o <<"/state/xx/index.htm">>
InitialFiles ==
  { NoFile,
    File("rw", <<>>),
    File("rw", <<Junk>>),
    File("rw", <<LBrace, Tok("str", Url1), Colon>>),
    File("rw", <<LBrace, RBrace>>),
    File("rw", Dumps(PyDict(<< <<Url1, PyStr(PageIsle)>> >>))),
    File("rw", <<LBrace, Tok("str", Url1), Colon, Tok("str", <<"old">>), Comma,
                 Tok("str", Url1), Colon, Tok("str", Escape(PageError)), RBrace>>),
    File("rw", <<LBrack, Tok("str", Url1), RBrack>>),
    File("rw", <<Tok("null", <<>>)>>),
    File("rw", <<LBrace, Tok("str", Url1), Colon, Tok("num", <<"7">>), RBrace>>),
    File("none", Dumps(PyDict(<< <<Url1, PyStr(PageIsle)>> >>))),
    File("w", Dumps(PyDict(<< <<Url1, PyStr(PageIsle)>> >>))),
    File("r", <<LBrace, RBrace>>),
    File("rw", Dumps(PyDict(<< <<baseurl, PyStr(<<"home">>)>>,
                               <<UrlOhio, PyStr(<<"listing">>)>> >>))) }

\* ------------------------------------------------------- NationalSite
NationalSite(category, name, address, zipcode, phone) ==
  [category |-> category, name |-> name, address |-> address,
   zipcode |-> zipcode, phone |-> phone]

\* NationalSite.info
info(self) ==
  self.name \o <<" (">> \o self.category \o <<"): ">> \o self.address
            \o <<" ">> \o self.zipcode

\* -------------------------------------------------- build_state_url_dict
RECURSIVE BuildStateDict(_, _)
\* the for loop over the menu items: the membership test uses the name as
\* written, the key stored is the lower-cased name
BuildStateDict(state_list, state_dict) ==
  IF state_list = <<>> THEN state_dict
  ELSE LET state_name    == state_list[1][1]
           state_details == baseurl \o state_list[1][2]
       IN  BuildStateDict(Tail(state_list),
             IF state_name \notin MapKeys(state_dict)
             THEN MapSet(state_dict, Lower(state_name), state_details)
             ELSE state_dict)

\* build_state_url_dict(), home being the answer of requests.get(state_url)
build_state_url_dict(home) ==
  IF home.raised \/ ~home.menu
  THEN [raised |-> TRUE, state_dict |-> <<>>]
  ELSE [raised |-> FALSE, state_dict |-> BuildStateDict(home.items, <<>>)]

\* ------------------------------------------------------ get_site_instance
RECURSIVE Find(_, _, _)
\* position of the first chunk equal to marker at or after position i, else 0
Find(soup, marker, i) ==
  IF i > Len(soup) THEN 0
  ELSE IF soup[i] = marker THEN i ELSE Find(soup, marker, i + 1)

\* element.text.strip() of the element whose marker stands at position i
TextStrip(soup, i) ==
  IF i + 1 > Len(soup) \/ soup[i + 1] \in {"", " "} THEN <<>> ELSE <<soup[i + 1]>>

\* a str is never None
IsNone(s) == FALSE

\* the part of get_site_instance after the fetch: text is the value that
\* make_url_request_using_cache returned
ParseSite(text) ==
  LET soup   == text.s
      header == Find(soup, "Hero-titleContainer clearfix", 1)
      nm     == Find(soup, "Hero-title", header + 1)
      cat    == Find(soup, "Hero-designation", header + 1)
      footer == Find(soup, "ParkFooter-contact", 1)
      ci     == Find(soup, "addressLocality", footer + 1)
      st     == Find(soup, "addressRegion", footer + 1)
      zp     == Find(soup, "postalCode", footer + 1)
      ph     == Find(soup, "telephone", footer + 1)
      name     == TextStrip(soup, nm)
      category == IF TextStrip(soup, cat) # <<>> THEN TextStrip(soup, cat)
                  ELSE <<"no category">>
      city     == TextStrip(soup, ci)
      state    == TextStrip(soup, st)
      address  == IF ~IsNone(city) /\ ~IsNone(state)
                  THEN city \o <<", ">> \o state ELSE <<>>
      zipcode  == IF ~IsNone(TextStrip(soup, zp)) THEN TextStrip(soup, zp) ELSE <<>>
      phone    == IF ~IsNone(TextStrip(soup, ph)) THEN TextStrip(soup, ph) ELSE <<>>
  IN  IF text.k # "str" \/ header = 0 \/ nm = 0 \/ cat = 0 \/ footer = 0
         \/ ci = 0 \/ st = 0 \/ zp = 0 \/ ph = 0
      THEN [raised |-> TRUE, site |-> NationalSite(<<>>, <<>>, <<>>, <<>>, <<>>)]
      ELSE [raised |-> FALSE,
            site |-> NationalSite(category, name, address, zipcode, phone)]

\* ------------------------------------------ make_url_request_using_cache
GET(url) == [op |-> "GET", target |-> url]
FileRead  == [op |-> "read",  target |-> CACHE_FILE_NAME]
FileWrite == [op |-> "write", target |-> CACHE_FILE_NAME]

\* variant: the test looks among the stored bodies instead of the keys
InCache_values(url, cache) ==
  \E i \in 1..Len(cache.items) : cache.items[i][2] = PyStr(url)

\* url in cache.keys()
InCache(url, cache) == url \in Keys(cache)

\* variant: the body is stored in a new dict, dropping what the cache held
Store_fresh(cache, url, body) == PyDict(<< <<url, PyStr(body)>> >>)

\* cache[url] = response.text
Store(cache, url, body) == DictSet(cache, url, PyStr(body))

\* variant: the key is bound to an empty body before the request is made
make_url_request_using_cache_early(url, cache, file, net) ==
  IF cache.k # "dict"
  THEN [raised |-> TRUE, kind |-> "none", ret |-> PyNone, cache |-> cache,
        file |-> file, io |-> <<>>, out |-> <<>>]
  ELSE IF InCache(url, cache)
  THEN [raised |-> FALSE, kind |-> "hit", ret |-> Lookup(cache, url),
        cache |-> cache, file |-> file, io |-> <<>>,
        out |-> << <<"Using cache">> >>]
  ELSE IF net.raised
  THEN [raised |-> TRUE, kind |-> "miss", ret |-> PyNone,
        cache |-> Store(cache, url, <<>>),
        file |-> file, io |-> <<GET(url)>>, out |-> << <<"Fetching">> >>]
  ELSE LET stored == Store(cache, url, net.text)
           saved  == save_cache(stored, file)
       IN  [raised |-> saved.raised, kind |-> "miss",
            ret |-> IF saved.raised THEN PyNone ELSE Lookup(stored, url),
            cache |-> stored, file |-> saved.file,
            io |-> <<GET(url), FileWrite>>, out |-> << <<"Fetching">> >>]

\* variant: a response whose status is not 200 raises before it is stored
make_url_request_using_cache_checked(url, cache, file, net) ==
  IF cache.k # "dict"
  THEN [raised |-> TRUE, kind |-> "none", ret |-> PyNone, cache |-> cache,
        file |-> file, io |-> <<>>, out |-> <<>>]
  ELSE IF InCache(url, cache)
  THEN [raised |-> FALSE, kind |-> "hit", ret |-> Lookup(cache, url),
        cache |-> cache, file |-> file, io |-> <<>>,
        out |-> << <<"Using cache">> >>]
  ELSE IF net.raised \/ net.status # "200"
  THEN [raised |-> TRUE, kind |-> "miss", ret |-> PyNone, cache |-> cache,
        file |-> file, io |-> <<GET(url)>>, out |-> << <<"Fetching">> >>]
  ELSE LET stored == Store(cache, url, net.text)
           saved  == save_cache(stored, file)
       IN  [raised |-> saved.raised, kind |-> "miss",
            ret |-> IF saved.raised THEN PyNone ELSE Lookup(stored, url),
            cache |-> stored, file |-> saved.file,
            io |-> <<GET(url), FileWrite>>, out |-> << <<"Fetching">> >>]

\* make_url_request_using_cache(url, cache) with the cache file as it is and
\* net the answer requests.get(url) gives if it is asked.  ret is the return
\* value; cache and file are the dict and the file afterwards.
make_url_request_using_cache(url, cache, file, net) ==
  IF cache.k # "dict"
  THEN [raised |-> TRUE, kind |-> "none", ret |-> PyNone, cache |-> cache,
        file |-> file, io |-> <<>>, out |-> <<>>]
  ELSE IF InCache(url, cache)
  THEN [raised |-> FALSE, kind |-> "hit", ret |-> Lookup(cache, url),
        cache |-> cache, file |-> file, io |-> <<>>,
        out |-> << <<"Using cache">> >>]
  ELSE IF net.raised
  THEN [raised |-> TRUE, kind |-> "miss", ret |-> PyNone, cache |-> cache,
        file |-> file, io |-> <<GET(url)>>, out |-> << <<"Fetching">> >>]
  ELSE LET stored == Store(cache, url, net.text)
           saved  == save_cache(stored, file)
       IN  [raised |-> saved.raised, kind |-> "miss",
            ret |-> IF saved.raised THEN PyNone ELSE Lookup(stored, url),
            cache |-> stored, file |-> saved.file,
            io |-> <<GET(url), FileWrite>>, out |-> << <<"Fetching">> >>]

\* ----------------------------------------------------------- rendering
Dashes(n) == [i \in 1..n |-> "-"]

\* the three header lines above the site list
ListHeader(state_input) ==
  LET count == Len(Lower(state_input))
  IN  <<Dashes(26 + count),
        <<"List of national sites in ">> \o Lower(state_input),
        Dashes(26 + count)>>

\* the loop that numbers the sites: site_dict[str(index)] = item
NumberSites(all_states) == [i \in 1..Len(all_states) |-> <<Str(i), all_states[i]>>]

\* the lines that loop prints
ListLines(all_states) ==
  [i \in 1..Len(all_states) |-> <<"[">> \o Str(i) \o <<"] ">> \o info(all_states[i])]

RECURSIVE PlaceLines(_)
\* the loop over nearby_places['searchResults']; the print stands in the else
\* branch of the city test
PlaceLines(places) ==
  IF places = <<>> THEN <<>>
  ELSE LET place    == places[1]
           name     == place.name
           category == IF place.fields.group_sic_code_name = <<>>
                       THEN <<"no category">> ELSE place.fields.group_sic_code_name
           address  == IF place.fields.address = <<>>
                       THEN <<"no address">> ELSE place.fields.address
       IN  (IF place.fields.city = <<>> THEN <<>>
            ELSE << <<"- ">> \o name \o <<" (">> \o category \o <<"): ">>
                      \o address \o <<", ">> \o place.fields.city >>)
           \o PlaceLines(Tail(places))

\* the three header lines above the places
PlacesHeader(site) ==
  LET count == Len(site.name)
  IN  <<Dashes(12 + count), <<"Places near ">> \o site.name, Dashes(12 + count)>>

\* --------------------------------------------------------------- state
VARIABLES
  pc,            \* "start", "StateSelect", "Fetch", "Parse", "SiteList",
                 \* "Exit" (exit() was called) or "Crashed" (uncaught exception)
  run,           \* how many times the program has been started
  disk,          \* the file CACHE_FILE_NAME
  CACHE_DICT,    \* the module global
  loadedOk,      \* the try body of load_cache ran to its end in this process
  state_input,   \* what was typed at the state prompt
  states_url,    \* the dict build_state_url_dict returned
  pending,       \* get_sites_for_state: the links of park_find not yet visited
  park_list,     \* get_sites_for_state: the sites built so far
  site_dict,     \* the numbered list, <<str(index), site>> in insertion order
  number_input,  \* what was typed at the number prompt, lower-cased
  text,          \* get_site_instance: what make_url_request_using_cache returned
                 \* (PyNone outside get_site_instance)
  call,          \* the make_url_request_using_cache call that returned text
  gets,          \* per url, the GETs make_url_request_using_cache issued in this process
  io,            \* network and file operations of the last step
  out,           \* lines printed by the last step
  error,         \* the function whose exception ended the process, else ""
  drilled,       \* a detail lookup was done since the list was rendered
  nearby_places  \* what get_nearby_places returned for the last selection
                 \* (Unbound when it is not read again before line 282)

vars == <<pc, run, disk, CACHE_DICT, loadedOk, state_input, states_url, pending,
          park_list, site_dict, number_input, text, call, gets, io, out, error,
          drilled, nearby_places>>

\* the variables of the session loop
session == <<state_input, states_url, pending, park_list, site_dict,
             number_input, text, call, drilled, nearby_places>>

NoCall == [url |-> <<>>, kind |-> "none", status |-> "none"]

\* the name nearby_places is not bound, or its value is not read any more
Unbound == [bound |-> FALSE, has |-> FALSE, searchResults |-> <<>>]
\* the dict response.json() gave: 'searchResults' is a key of it or not
Answer(api) == [bound |-> TRUE, has |-> api.has, searchResults |-> api.searchResults]

\* a freshly started process: line 8 has run, load_cache not yet
Fresh ==
  /\ pc = "start"
  /\ CACHE_DICT = EmptyDict
  /\ loadedOk = FALSE
  /\ state_input = <<>> /\ states_url = <<>> /\ pending = <<>>
  /\ park_list = <<>> /\ site_dict = <<>> /\ number_input = <<>>
  /\ text = PyNone /\ call = NoCall
  /\ gets = [u \in SiteUrls |-> 0]
  /\ io = <<>> /\ out = <<>> /\ error = "" /\ drilled = FALSE
  /\ nearby_places = Unbound

Init ==
  /\ Fresh
  /\ run = 1
  /\ disk \in InitialFiles

\* CACHE_DICT = load_cache()
LoadCacheStep ==
  /\ pc = "start"
  /\ LET r == load_cache(disk)
     IN  /\ CACHE_DICT' = r.cache
         /\ pc' = IF r.raised THEN "Crashed" ELSE "StateSelect"
         /\ error' = IF r.raised THEN "load_cache" ELSE ""
  /\ loadedOk' = ~LoadTry(disk).raised
  /\ io' = <<FileRead>>
  /\ out' = <<>>
  /\ UNCHANGED <<run, disk, session, gets>>

\* state prompt: 'exit' in any case
StateExit(inp) ==
  /\ pc = "StateSelect"
  /\ Lower(inp) = exit
  /\ state_input' = inp
  /\ pc' = "Exit"
  /\ io' = <<>> /\ out' = <<>>
  /\ UNCHANGED <<nearby_places,
                 run, disk, CACHE_DICT, loadedOk, states_url, pending, park_list,
                 site_dict, number_input, text, call, gets, error, drilled>>

\* state prompt: build_state_url_dict raises
StateBuildFails(inp, home) ==
  /\ pc = "StateSelect"
  /\ Lower(inp) # exit
  /\ build_state_url_dict(home).raised
  /\ state_input' = inp
  /\ pc' = "Crashed" /\ error' = "build_state_url_dict"
  /\ io' = <<GET(baseurl)>> /\ out' = <<>>
  /\ UNCHANGED <<nearby_places,
                 run, disk, CACHE_DICT, loadedOk, states_url, pending, park_list,
                 site_dict, number_input, text, call, gets, drilled>>

\* variant: an unknown name ends the program instead of prompting again
StateUnknown_exit(inp, home) ==
  /\ pc = "StateSelect"
  /\ Lower(inp) # exit
  /\ LET r == build_state_url_dict(home)
     IN  /\ ~r.raised
         /\ Lower(inp) \notin MapKeys(r.state_dict)
         /\ states_url' = r.state_dict
  /\ state_input' = inp
  /\ pc' = "Exit"
  /\ io' = <<GET(baseurl)>>
  /\ out' = << <<"[Error] Enter proper state name">> >>
  /\ UNCHANGED <<nearby_places,
                 run, disk, CACHE_DICT, loadedOk, pending, park_list, site_dict,
                 number_input, text, call, gets, error, drilled>>

\* variant: the home page is requested through the cache
StateUnknown_cached(inp, home) ==
  /\ pc = "StateSelect"
  /\ Lower(inp) # exit
  /\ LET r == build_state_url_dict(home)
     IN  /\ ~r.raised
         /\ Lower(inp) \notin MapKeys(r.state_dict)
         /\ states_url' = r.state_dict
  /\ LET q == make_url_request_using_cache(baseurl, CACHE_DICT, disk,
                 [raised |-> FALSE, status |-> "200", text |-> <<"home">>])
     IN  /\ CACHE_DICT' = q.cache
         /\ disk' = q.file
         /\ io' = q.io
  /\ state_input' = inp
  /\ pc' = "StateSelect"
  /\ out' = << <<"[Error] Enter proper state name">> >>
  /\ UNCHANGED <<nearby_places,
                 run, loadedOk, pending, park_list, site_dict,
                 number_input, text, call, gets, error, drilled>>

\* state prompt: the name is no key of the index just built
StateUnknown(inp, home) ==
  /\ pc = "StateSelect"
  /\ Lower(inp) # exit
  /\ LET r == build_state_url_dict(home)
     IN  /\ ~r.raised
         /\ Lower(inp) \notin MapKeys(r.state_dict)
         /\ states_url' = r.state_dict
  /\ state_input' = inp
  /\ pc' = "StateSelect"
  /\ io' = <<GET(baseurl)>>
  /\ out' = << <<"[Error] Enter proper state name">> >>
  /\ UNCHANGED <<nearby_places,
                 run, disk, CACHE_DICT, loadedOk, pending, park_list, site_dict,
                 number_input, text, call, gets, error, drilled>>

\* state prompt: the name is a key, get_sites_for_state fails on the state page
StateListFails(inp, home, sp) ==
  /\ pc = "StateSelect"
  /\ Lower(inp) # exit
  /\ LET r == build_state_url_dict(home)
     IN  /\ ~r.raised
         /\ Lower(inp) \in MapKeys(r.state_dict)
         /\ states_url' = r.state_dict
         /\ io' = <<GET(baseurl), GET(MapGet(r.state_dict, Lower(inp)))>>
  /\ sp.raised \/ ~sp.list
  /\ state_input' = inp
  /\ pc' = "Crashed" /\ error' = "get_sites_for_state"
  /\ out' = <<>>
  /\ UNCHANGED <<nearby_places,
                 run, disk, CACHE_DICT, loadedOk, pending, park_list, site_dict,
                 number_input, text, call, gets, drilled>>

\* state prompt: the name is a key and the state page lists its sites; an
\* empty list is rendered at once, otherwise the sites are built one by one
StateListed(inp, home, sp) ==
  /\ pc = "StateSelect"
  /\ Lower(inp) # exit
  /\ LET r == build_state_url_dict(home)
     IN  /\ ~r.raised
         /\ Lower(inp) \in MapKeys(r.state_dict)
         /\ states_url' = r.state_dict
         /\ io' = <<GET(baseurl), GET(MapGet(r.state_dict, Lower(inp)))>>
  /\ ~sp.raised /\ sp.list
  /\ state_input' = inp
  /\ pending' = sp.hrefs
  /\ park_list' = <<>>
  /\ IF sp.hrefs = <<>>
     THEN /\ pc' = "SiteList"
          /\ site_dict' = NumberSites(<<>>)
          /\ out' = ListHeader(inp)
          /\ drilled' = FALSE
     ELSE /\ pc' = "Fetch"
          /\ out' = <<>>
          /\ UNCHANGED <<site_dict, drilled>>
  /\ UNCHANGED <<nearby_places,
                 run, disk, CACHE_DICT, loadedOk, number_input, text, call, gets,
                 error>>

\* get_site_instance, first line: the page comes from the cache or the network
FetchSite ==
  /\ pc = "Fetch"
  /\ \E net \in SiteNet(baseurl \o Head(pending)) :
     LET url == baseurl \o Head(pending)
         r   == make_url_request_using_cache(url, CACHE_DICT, disk, net)
     IN  /\ CACHE_DICT' = r.cache
         /\ disk' = r.file
         /\ io' = r.io
         /\ out' = r.out
         /\ call' = [url |-> url, kind |-> r.kind,
                     status |-> IF r.kind = "miss" THEN net.status ELSE "none"]
         /\ gets' = [gets EXCEPT ![url] =
                       @ + Cardinality({i \in 1..Len(r.io) : r.io[i].op = "GET"})]
         /\ IF r.raised
            THEN /\ pc' = "Crashed"
                 /\ error' = "make_url_request_using_cache"
                 /\ text' = text
            ELSE /\ pc' = "Parse"
                 /\ error' = error
                 /\ text' = r.ret
  /\ UNCHANGED <<nearby_places,
                 run, loadedOk, state_input, states_url, pending, park_list,
                 site_dict, number_input, drilled>>

\* variant: a page that cannot be parsed is taken out of the cache, and the
\* cache is saved
ParseStep_evict ==
  /\ pc = "Parse"
  /\ LET r == ParseSite(text)
         evicted == PyDict(SelectSeq(CACHE_DICT.items, LAMBDA p : p[1] # call.url))
     IN  IF r.raised
         THEN /\ pc' = "Crashed" /\ error' = "get_site_instance"
              /\ out' = <<>>
              /\ CACHE_DICT' = evicted
              /\ disk' = save_cache(evicted, disk).file
              /\ UNCHANGED <<pending, park_list, site_dict, drilled, text, call>>
         ELSE /\ pending' = Tail(pending)
              /\ error' = error
              /\ text' = PyNone /\ call' = NoCall
              /\ UNCHANGED <<CACHE_DICT, disk>>
              /\ IF Tail(pending) = <<>>
                 THEN LET all_states == Append(park_list, r.site)
                      IN  /\ pc' = "SiteList"
                          /\ park_list' = <<>>
                          /\ site_dict' = NumberSites(all_states)
                          /\ out' = ListHeader(state_input) \o ListLines(all_states)
                          /\ drilled' = FALSE
                 ELSE /\ pc' = "Fetch"
                      /\ park_list' = Append(park_list, r.site)
                      /\ out' = <<>>
                      /\ UNCHANGED <<site_dict, drilled>>
  /\ io' = <<>>
  /\ UNCHANGED <<nearby_places, run, loadedOk, state_input, states_url,
                 number_input, gets>>

\* get_site_instance, the rest: parse the page; after the last site the
\* numbered list is built and printed
ParseStep ==
  /\ pc = "Parse"
  /\ LET r == ParseSite(text)
     IN  IF r.raised
         THEN /\ pc' = "Crashed" /\ error' = "get_site_instance"
              /\ out' = <<>>
              /\ UNCHANGED <<pending, park_list, site_dict, drilled, text, call>>
         ELSE /\ pending' = Tail(pending)
              /\ error' = error
              /\ text' = PyNone /\ call' = NoCall
              /\ IF Tail(pending) = <<>>
                 THEN LET all_states == Append(park_list, r.site)
                      IN  /\ pc' = "SiteList"
                          /\ park_list' = <<>>
                          /\ site_dict' = NumberSites(all_states)
                          /\ out' = ListHeader(state_input) \o ListLines(all_states)
                          /\ drilled' = FALSE
                 ELSE /\ pc' = "Fetch"
                      /\ park_list' = Append(park_list, r.site)
                      /\ out' = <<>>
                      /\ UNCHANGED <<site_dict, drilled>>
  /\ io' = <<>>
  /\ UNCHANGED <<nearby_places,
                 run, disk, CACHE_DICT, loadedOk, state_input, states_url,
                 number_input, gets>>

\* variant: 'back' continues the inner loop instead of leaving it
NumberBack_continue(inp) ==
  /\ pc = "SiteList"
  /\ Lower(inp) = back
  /\ number_input' = Lower(inp)
  /\ pc' = "SiteList"
  /\ io' = <<>> /\ out' = <<>>
  /\ nearby_places' = Unbound
  /\ UNCHANGED <<run, disk, CACHE_DICT, loadedOk, state_input, states_url, pending,
                 park_list, site_dict, text, call, gets, error, drilled>>

\* number prompt: 'back'.  The list is dropped here: line 268 binds site_dict
\* anew before line 282 can read it again.
NumberBack(inp) ==
  /\ pc = "SiteList"
  /\ Lower(inp) = back
  /\ number_input' = Lower(inp)
  /\ pc' = "StateSelect"
  /\ site_dict' = <<>>
  /\ io' = <<>> /\ out' = <<>>
  /\ nearby_places' = Unbound
  /\ UNCHANGED <<run, disk, CACHE_DICT, loadedOk, state_input, states_url, pending,
                 park_list, text, call, gets, error, drilled>>

\* variant: 'exit' at the number prompt saves the cache before it ends
NumberExit_save(inp) ==
  /\ pc = "SiteList"
  /\ Lower(inp) # back
  /\ Lower(inp) = exit
  /\ number_input' = Lower(inp)
  /\ pc' = "Exit"
  /\ disk' = save_cache(CACHE_DICT, disk).file
  /\ io' = <<FileWrite>> /\ out' = <<>>
  /\ nearby_places' = Unbound
  /\ UNCHANGED <<run, CACHE_DICT, loadedOk, state_input, states_url, pending,
                 park_list, site_dict, text, call, gets, error, drilled>>

\* number prompt: 'exit'
NumberExit(inp) ==
  /\ pc = "SiteList"
  /\ Lower(inp) # back
  /\ Lower(inp) = exit
  /\ number_input' = Lower(inp)
  /\ pc' = "Exit"
  /\ io' = <<>> /\ out' = <<>>
  /\ nearby_places' = Unbound
  /\ UNCHANGED <<run, disk, CACHE_DICT, loadedOk, state_input, states_url, pending,
                 park_list, site_dict, text, call, gets, error, drilled>>

\* number prompt: a key of site_dict; api is the answer of the places API
NumberDetail(inp, api) ==
  /\ pc = "SiteList"
  /\ Lower(inp) \notin {back, exit}
  /\ Lower(inp) \in MapKeys(site_dict)
  /\ number_input' = Lower(inp)
  /\ LET site == MapGet(site_dict, Lower(inp))
     IN  /\ io' = <<GET(endpoint_url \o <<"?origin=">> \o site.zipcode)>>
         /\ IF api.raised \/ ~api.json
            THEN /\ pc' = "Crashed" /\ error' = "get_nearby_places"
                 /\ out' = <<>>
                 /\ drilled' = drilled
                 /\ nearby_places' = Unbound
            ELSE IF ~api.has
            THEN /\ pc' = "Crashed" /\ error' = "searchResults"
                 /\ out' = PlacesHeader(site)
                 /\ drilled' = drilled
                 /\ nearby_places' = Answer(api)
            ELSE /\ pc' = "SiteList" /\ error' = error
                 /\ out' = PlacesHeader(site) \o PlaceLines(api.searchResults)
                 /\ drilled' = TRUE
                 /\ nearby_places' = Answer(api)
  /\ UNCHANGED <<run, disk, CACHE_DICT, loadedOk, state_input, states_url, pending,
                 park_list, site_dict, text, call, gets>>

\* number prompt: anything else
NumberInvalid(inp) ==
  /\ pc = "SiteList"
  /\ Lower(inp) \notin {back, exit}
  /\ Lower(inp) \notin MapKeys(site_dict)
  /\ number_input' = Lower(inp)
  /\ pc' = "SiteList"
  /\ io' = <<>>
  /\ out' = << <<"[Error] Invalid input">> >>
  /\ nearby_places' = Unbound
  /\ UNCHANGED <<run, disk, CACHE_DICT, loadedOk, state_input, states_url, pending,
                 park_list, site_dict, text, call, gets, error, drilled>>

\* the program has ended and is started again on the same cache file
Restart ==
  /\ pc \in {"Exit", "Crashed"}
  /\ run < MaxRuns
  /\ run' = run + 1
  /\ disk' = disk
  /\ pc' = "start"
  /\ CACHE_DICT' = EmptyDict
  /\ loadedOk' = FALSE
  /\ state_input' = <<>> /\ states_url' = <<>> /\ pending' = <<>>
  /\ park_list' = <<>> /\ site_dict' = <<>> /\ number_input' = <<>>
  /\ text' = PyNone /\ call' = NoCall
  /\ gets' = [u \in SiteUrls |-> 0]
  /\ io' = <<>> /\ out' = <<>> /\ error' = "" /\ drilled' = FALSE
  /\ nearby_places' = Unbound

Next ==
  \/ LoadCacheStep
  \/ \E inp \in StateInputs : StateExit(inp)
  \/ \E inp \in StateInputs, home \in HomeNet : StateBuildFails(inp, home)
  \/ \E inp \in StateInputs, home \in HomeNet : StateUnknown(inp, home)
  \/ \E inp \in StateInputs, home \in HomeNet, sp \in StateNet :
       StateListFails(inp, home, sp)
  \/ \E inp \in StateInputs, home \in HomeNet, sp \in StateNet :
       StateListed(inp, home, sp)
  \/ FetchSite
  \/ ParseStep
  \/ \E inp \in NumberInputs : NumberBack(inp)
  \/ \E inp \in NumberInputs : NumberExit(inp)
  \/ \E inp \in NumberInputs, api \in PlacesNet : NumberDetail(inp, api)
  \/ \E inp \in NumberInputs : NumberInvalid(inp)
  \/ Restart

Spec == Init /\ [][Next]_vars

\* ------------------------------------------- save_cache / load_cache alone
\* The two functions applied in any order to every small str -> str dict
\* and every initial cache file; io is the list of calls made so far.
RTBodies == {PageIsle, PageError, <<>>}
RTCaches ==
  {PyDict(kv) : kv \in
     {<<>>}
     \cup {<< <<u, PyStr(b)>> >> : u \in SiteUrls, b \in RTBodies}
     \cup {<< <<uv[1], PyStr(b)>>, <<uv[2], PyStr(c)>> >> :
             uv \in {p \in SiteUrls \X SiteUrls : p[1] # p[2]},
             b \in RTBodies, c \in {PageIsle, PageError}}}

InitRT ==
  /\ pc = "rt"
  /\ run = 1
  /\ disk \in InitialFiles
  /\ CACHE_DICT \in RTCaches
  /\ loadedOk = FALSE
  /\ state_input = <<>> /\ states_url = <<>> /\ pending = <<>>
  /\ park_list = <<>> /\ site_dict = <<>> /\ number_input = <<>>
  /\ text = PyNone /\ call = NoCall
  /\ gets = [u \in SiteUrls |-> 0]
  /\ io = <<>> /\ out = <<>> /\ error = "" /\ drilled = FALSE
  /\ nearby_places = Unbound

\* save_cache(CACHE_DICT) returns
RTSave ==
  /\ pc = "rt"
  /\ Len(io) < MaxOps
  /\ LET saved == save_cache(CACHE_DICT, disk)
     IN  /\ ~saved.raised
         /\ disk' = saved.file
  /\ io' = Append(io, FileWrite)
  /\ UNCHANGED <<pc, run, CACHE_DICT, loadedOk, session, gets, out, error>>

\* save_cache(CACHE_DICT) raises: the file cannot be opened for writing
RTSaveRaises ==
  /\ pc = "rt"
  /\ Len(io) < MaxOps
  /\ save_cache(CACHE_DICT, disk).raised
  /\ pc' = "Crashed" /\ error' = "save_cache"
  /\ io' = Append(io, FileWrite)
  /\ UNCHANGED <<run, disk, CACHE_DICT, loadedOk, session, gets, out>>

\* CACHE_DICT = load_cache()
RTLoad ==
  /\ pc = "rt"
  /\ Len(io) < MaxOps
  /\ CACHE_DICT' = load_cache(disk).cache
  /\ loadedOk' = ~LoadTry(disk).raised
  /\ io' = Append(io, FileRead)
  /\ UNCHANGED <<pc, run, disk, session, gets, out, error>>

NextRT == RTSave \/ RTSaveRaises \/ RTLoad

SpecRT == InitRT /\ [][NextRT]_vars

\* ---------------------------------------------------------------- claims

\* C1: once a url is a key of the cache (stored by an earlier call of this
\* process or read from the file by load_cache), a call of
\* make_url_request_using_cache for it returns the stored body, issues no
\* GET and changes neither the cache nor the file; so no url is requested
\* more than once by the calls that share one cache.
C1_CacheIdempotence ==
  /\ [][(pc = "Fetch" /\ baseurl \o Head(pending) \in Keys(CACHE_DICT))
          => /\ pc' = "Parse"
             /\ text' = Lookup(CACHE_DICT, baseurl \o Head(pending))
             /\ io' = <<>>
             /\ gets' = gets
             /\ CACHE_DICT' = CACHE_DICT
             /\ disk' = disk]_vars
  /\ [](\A u \in SiteUrls : gets[u] <= 1)

\* a second call for a url this process has fetched is answered from the cache
C1_Witness ==
  /\ pc = "Parse"
  /\ call.kind = "hit"
  /\ gets[call.url] = 1
  /\ text = Lookup(CACHE_DICT, call.url)

\* C2: when a make_url_request_using_cache call that missed returns, the
\* document in the cache file is the in-memory dict, new entry included.
C2_FlushAfterWrite ==
  (pc = "Parse" /\ call.kind = "miss")
    => /\ disk.exists
       /\ Loads(disk.content).ok
       /\ DictEq(Loads(disk.content).val, CACHE_DICT)
       /\ call.url \in Keys(CACHE_DICT)
       /\ Lookup(Loads(disk.content).val, call.url) = text

\* no cache file at the start, one fetch: the document is {url: body}
C2_Witness ==
  /\ pc = "Parse"
  /\ call.kind = "miss"
  /\ run = 1
  /\ text.k = "str"
  /\ disk.content = <<LBrace, Tok("str", call.url), Colon,
                      Tok("str", Escape(text.s)), RBrace>>

\* C3: at the number prompt 'back' leads to the state prompt, whatever was
\* done before; 'exit' at either prompt ends the process, and an ended
\* process prompts no more (the only step left is a new start).
C3_NavigationSafety ==
  /\ [][(pc = "SiteList" /\ number_input' = back) => pc' = "StateSelect"]_vars
  /\ [][(pc = "SiteList" /\ number_input' = exit) => pc' = "Exit"]_vars
  /\ [][(pc = "StateSelect" /\ Lower(state_input') = exit) => pc' = "Exit"]_vars
  /\ [][pc = "Exit" => (pc' = "start" /\ run' = run + 1)]_vars

\* 'back' after a detail lookup: the session is at the state prompt
C3_Witness ==
  /\ pc = "StateSelect"
  /\ number_input = back
  /\ drilled

\* C4: a state name that is no key of the index just built is reported and
\* the session stays at the state prompt; at the number prompt an input that
\* is not 'back', 'exit' or a key of the list is reported and the session
\* stays at the number prompt with the same list.
C4_InputErrorsRecovered ==
  /\ [][(/\ pc = "StateSelect"
         /\ Lower(state_input') # exit
         /\ error' # "build_state_url_dict"
         /\ Lower(state_input') \notin MapKeys(states_url'))
          => /\ pc' = "StateSelect"
             /\ error' = ""
             /\ out' = << <<"[Error] Enter proper state name">> >>
             /\ site_dict' = site_dict]_vars
  /\ [][(/\ pc = "SiteList"
         /\ number_input' \notin {back, exit}
         /\ number_input' \notin MapKeys(site_dict))
          => /\ pc' = "SiteList"
             /\ error' = ""
             /\ out' = << <<"[Error] Invalid input">> >>
             /\ site_dict' = site_dict]_vars

\* an unknown state name was reported and the state prompt is shown again
C4_Witness ==
  /\ pc = "StateSelect"
  /\ out = << <<"[Error] Enter proper state name">> >>
  /\ states_url # <<>>
  /\ Lower(state_input) \notin MapKeys(states_url)

\* C5: the numbered list has the keys "1".."N" in order, and after every
\* selection of one of its keys the session is at the number prompt again with
\* the same list.
C5_NumberingPersists ==
  /\ [](pc = "SiteList" => \A i \in 1..Len(site_dict) : site_dict[i][1] = Str(i))
  /\ [][(pc = "SiteList" /\ number_input' \in MapKeys(site_dict))
          => (pc' = "SiteList" /\ site_dict' = site_dict)]_vars

\* C6: when the cache file is missing, unreadable or holds no parseable JSON,
\* load_cache returns an empty dict and the session reaches the state prompt.
C6_LoadNeverFails ==
  [][(/\ pc = "start"
      /\ \/ ~disk.exists
         \/ disk.mode \notin {"rw", "r"}
         \/ ~Loads(disk.content).ok)
       => /\ pc' = "StateSelect"
          /\ error' = ""
          /\ CACHE_DICT' = EmptyDict]_vars

\* a readable file with text that is not JSON: the session starts on {}
C6_Witness ==
  /\ pc = "StateSelect"
  /\ io = <<FileRead>>
  /\ disk.exists /\ disk.mode = "rw" /\ disk.content # <<>>
  /\ ~Loads(disk.content).ok
  /\ CACHE_DICT = EmptyDict

\* the document is a JSON object whose values are all strings
FlatDocument(file) ==
  LET r == Loads(file.content)
  IN  /\ r.ok
      /\ r.val.k = "dict"
      /\ \A i \in 1..Len(r.val.items) : r.val.items[i][2].k = "str"

\* C7: a cache file whose document is not a flat object of strings is taken
\* for an empty cache by load_cache, and no later fetch fails on its shape.
C7_OtherShapesAreEmpty ==
  /\ (io = <<FileRead>> /\ disk.exists /\ ~FlatDocument(disk))
       => CACHE_DICT = EmptyDict
  /\ error = "make_url_request_using_cache" => CACHE_DICT.k = "dict"

\* the entries of the document in the file, whatever the file's mode
Entries(file) ==
  IF file.exists /\ Loads(file.content).ok THEN Loads(file.content).val
  ELSE EmptyDict

\* C8: within one process every key of the in-memory cache stays, with the
\* value it had; when load_cache read the document, the same holds for the
\* entries of the document in the file.
C8_CacheOnlyGrows ==
  [][/\ (pc' # "start" /\ CACHE_DICT' # CACHE_DICT)
        => \A key \in Keys(CACHE_DICT) :
             /\ key \in Keys(CACHE_DICT')
             /\ Lookup(CACHE_DICT', key) = Lookup(CACHE_DICT, key)
     /\ (loadedOk /\ disk' # disk)
        => \A key \in Keys(Entries(disk)) :
             /\ key \in Keys(Entries(disk'))
             /\ Lookup(Entries(disk'), key) = Lookup(Entries(disk), key)]_vars

\* a miss while the cache holds an entry read from the file: both entries
\* are in memory and in the file
C8_Witness ==
  /\ pc = "Parse"
  /\ call.kind = "miss"
  /\ loadedOk
  /\ gets[Url1] = 0
  /\ Keys(CACHE_DICT) = SiteUrls
  /\ Keys(Entries(disk)) = SiteUrls

C10_SiteFailureDoesNotAbort ==
  error = "get_site_instance" => pc # "Crashed"

\* C11: a valid index selection whose places answer carries no
\* 'searchResults' does not fail: the session is at the number prompt again.
C11_EmptyPlacesRecovered ==
  error = "searchResults" => pc = "SiteList"

\* the line the places loop is to print for one place, every default applied
RenderedPlace(place) ==
  <<"- ">> \o place.name \o <<" (">>
    \o (IF place.fields.group_sic_code_name = <<>> THEN <<"no category">>
        ELSE place.fields.group_sic_code_name)
    \o <<"): ">>
    \o (IF place.fields.address = <<>> THEN <<"no address">>
        ELSE place.fields.address)
    \o <<", ">>
    \o (IF place.fields.city = <<>> THEN <<"no city">> ELSE place.fields.city)

\* C12: after a valid index selection whose answer has a result list, the
\* lines printed under the header are the places of the list, one line each
\* and in order, an empty category, address or city shown by its default.
C12_EveryPlaceRendered ==
  (pc = "SiteList" /\ nearby_places.bound /\ nearby_places.has)
    => out = PlacesHeader(MapGet(site_dict, number_input))
               \o [i \in 1..Len(nearby_places.searchResults) |->
                     RenderedPlace(nearby_places.searchResults[i])]

\* the first position of the menu that carries the name of position i
FirstOccurrence(menu, i) ==
  CHOOSE j \in 1..i :
    /\ menu[j][1] = menu[i][1]
    /\ \A k \in 1..(j - 1) : menu[k][1] # menu[i][1]

\* C13: the index build_state_url_dict returns maps the lower-cased name of
\* every menu item to the url of the first item of that name.
C13_FirstOccurrenceWins ==
  states_url # <<>>
    => \E menu \in Menus :
         \A i \in 1..Len(menu) :
           /\ Lower(menu[i][1]) \in MapKeys(states_url)
           /\ MapGet(states_url, Lower(menu[i][1]))
                = baseurl \o menu[FirstOccurrence(menu, i)][2]

\* footer.find(itemprop=...).text.strip() of a page that has the element
FooterText(page, itemprop) ==
  TextStrip(page.s, Find(page.s, itemprop, Find(page.s, "ParkFooter-contact", 1) + 1))

\* the site the step that leaves "Parse" has just built
BuiltSite ==
  IF pc' = "SiteList" THEN site_dict'[Len(site_dict')][2]
  ELSE park_list'[Len(park_list')]

\* C14: the address of every site get_site_instance returns is "" when the
\* city or the state parsed from the page is empty, else "city, state".
C14_AddressDefaulting ==
  [][(pc = "Parse" /\ pc' \in {"Fetch", "SiteList"})
       => LET city  == FooterText(text, "addressLocality")
              state == FooterText(text, "addressRegion")
          IN  BuiltSite.address
                = IF city = <<>> \/ state = <<>> THEN <<>>
                  ELSE city \o <<", ">> \o state]_vars

\* C15: no site of the numbered list, and no site built for it so far, has
\* an empty name.
C15_NameNeverEmpty ==
  /\ \A i \in 1..Len(site_dict) : site_dict[i][2].name # <<>>
  /\ \A i \in 1..Len(park_list) : park_list[i].name # <<>>

\* C16: the step that reads 'exit' (in any case) at the state prompt or at
\* the number prompt ends the process without a request and without touching
\* the cache file or the dict, and the ended process does nothing more: the
\* only step left is the start of a new process, which does no I/O itself.
C16_ExitWithoutIO ==
  /\ [][((pc = "StateSelect" /\ Lower(state_input') = exit)
          \/ (pc = "SiteList" /\ number_input' = exit))
         => /\ pc' = "Exit"
            /\ io' = <<>>
            /\ disk' = disk
            /\ gets' = gets
            /\ CACHE_DICT' = CACHE_DICT]_vars
  /\ [][pc = "Exit" => (pc' = "start" /\ io' = <<>> /\ disk' = disk)]_vars

\* 'EXIT' typed at the number prompt of a process that has fetched a page
C16_Witness ==
  /\ pc = "Exit"
  /\ number_input = exit
  /\ io = <<>>
  /\ \E u \in SiteUrls : gets[u] = 1 /\ u \in Keys(Entries(disk))

\* C17: every input at the state prompt other than 'exit' requests the home
\* page from the network, and a name found in the index requests that
\* state's page too, whatever the cache holds; these steps leave the cache
\* and its file alone, and every key a process adds to the cache or to the
\* document is the url of a site page.
C17_OnlySitePagesCached ==
  /\ [][(pc = "StateSelect" /\ Lower(state_input') # exit)
         => /\ io' # <<>>
            /\ io'[1] = GET(baseurl)
            /\ CACHE_DICT' = CACHE_DICT
            /\ disk' = disk]_vars
  /\ [][(/\ pc = "StateSelect"
         /\ Lower(state_input') # exit
         /\ error' # "build_state_url_dict"
         /\ Lower(state_input') \in MapKeys(states_url'))
         => io' = <<GET(baseurl), GET(MapGet(states_url', Lower(state_input')))>>]_vars
  /\ [][(pc # "start" /\ CACHE_DICT' # CACHE_DICT)
         => (Keys(CACHE_DICT') \ Keys(CACHE_DICT)) \subseteq SiteUrls]_vars
  /\ [][disk' # disk
         => (Keys(Entries(disk')) \ Keys(Entries(disk))) \subseteq SiteUrls]_vars

\* the cache holds the home page and the state's page under their urls, and
\* both were requested from the network all the same
C17_Witness ==
  /\ pc \in {"Fetch", "SiteList"}
  /\ {baseurl, UrlOhio} \subseteq Keys(CACHE_DICT)
  /\ io = <<GET(baseurl), GET(UrlOhio)>>

\* C18: a miss whose GET answers, with whatever status code, stores the body
\* under the url in the dict, then calls save_cache, then returns the body:
\* the key is in the dict even when save_cache raises (and then nothing is
\* returned and the file is as it was); when the call returns, the body it
\* returns is the one in the dict and in the file.  A later call for a url
\* in the cache returns the stored body, a 404 page as well.
C18_AnyStatusStored ==
  /\ [][(pc = "Fetch" /\ call'.kind = "miss" /\ call'.status # "none")
         => /\ io' = <<GET(call'.url), FileWrite>>
            /\ call'.url \in Keys(CACHE_DICT')
            /\ Lookup(CACHE_DICT', call'.url).k = "str"
            /\ StatusOf(Lookup(CACHE_DICT', call'.url).s) = call'.status
            /\ pc' = "Parse"
                 => /\ text' = Lookup(CACHE_DICT', call'.url)
                    /\ Lookup(Entries(disk'), call'.url) = text'
            /\ pc' # "Parse"
                 => /\ error' = "make_url_request_using_cache"
                    /\ disk' = disk]_vars
  /\ [][(pc = "Fetch" /\ call'.kind = "hit")
         => (pc' = "Parse" /\ text' = Lookup(CACHE_DICT, call'.url))]_vars

\* a later process gets the 404 page an earlier one fetched and stored
C18_Witness ==
  /\ run = 2
  /\ pc = "Parse"
  /\ call.kind = "hit"
  /\ call.url = Url2
  /\ text = PyStr(PageError)
  /\ StatusOf(text.s) = "404"

\* C19: a miss whose GET raises leaves the dict and the cache file as they
\* were, the url being a key of neither the dict nor what load_cache reads
\* from the file; and a call for a url that is no key of the dict is a miss
\* that asks the network.
C19_FailedFetchLeavesNoTrace ==
  /\ [][(pc = "Fetch" /\ call'.kind = "miss" /\ call'.status = "none")
         => /\ io' = <<GET(call'.url)>>
            /\ CACHE_DICT' = CACHE_DICT
            /\ disk' = disk
            /\ call'.url \notin Keys(CACHE_DICT')]_vars
  /\ []((pc = "Crashed" /\ call.kind = "miss" /\ call.status = "none")
         => call.url \notin (Keys(CACHE_DICT) \cup Keys(Logical(disk))))
  /\ [][(/\ pc = "Fetch"
         /\ CACHE_DICT.k = "dict"
         /\ baseurl \o Head(pending) \notin Keys(CACHE_DICT))
         => /\ call' = [url |-> baseurl \o Head(pending), kind |-> "miss",
                        status |-> call'.status]
            /\ io'[1] = GET(baseurl \o Head(pending))
            /\ gets'[baseurl \o Head(pending)] = gets[baseurl \o Head(pending)] + 1]_vars

\* the request for a second site raises in a later process: the dict and the
\* file hold the entry of the first site and nothing else
C19_Witness ==
  /\ run = 2
  /\ pc = "Crashed"
  /\ call = [url |-> Url2, kind |-> "miss", status |-> "none"]
  /\ io = <<GET(Url2)>>
  /\ Keys(CACHE_DICT) = {Url1}
  /\ Keys(Entries(disk)) = {Url1}

\* C20 as written: the page to parse is in the dict and in the file before it
\* is parsed; after a parse failure it is still there, the next process reads
\* it from the file, and a call for a url in the cache asks no network and
\* returns the stored body, on which the parse fails again.
C20_ParseFailureKeepsBody ==
  /\ [](pc = "Parse"
         => /\ call.url \in Keys(CACHE_DICT) \cap Keys(Entries(disk))
            /\ Lookup(CACHE_DICT, call.url) = text
            /\ Lookup(Entries(disk), call.url) = text)
  /\ []((pc = "Crashed" /\ error = "get_site_instance")
         => /\ ParseSite(text).raised
            /\ call.url \in Keys(CACHE_DICT) \cap Keys(Entries(disk))
            /\ Lookup(CACHE_DICT, call.url) = text
            /\ Lookup(Entries(disk), call.url) = text
            /\ call.url \in Keys(Logical(disk))
            /\ Lookup(Logical(disk), call.url) = text)
  /\ [][(pc = "Fetch" /\ call'.kind = "hit")
         => /\ io' = <<>>
            /\ gets' = gets
            /\ text' = Lookup(CACHE_DICT, call'.url)]_vars

\* C20, amended: the same, the next process reading the page from the file
\* provided the file can be opened for reading.
C20_ParseFailureKeepsBody_Readable ==
  /\ [](pc = "Parse"
         => /\ call.url \in Keys(CACHE_DICT) \cap Keys(Entries(disk))
            /\ Lookup(CACHE_DICT, call.url) = text
            /\ Lookup(Entries(disk), call.url) = text)
  /\ []((pc = "Crashed" /\ error = "get_site_instance")
         => /\ ParseSite(text).raised
            /\ call.url \in Keys(CACHE_DICT) \cap Keys(Entries(disk))
            /\ Lookup(CACHE_DICT, call.url) = text
            /\ Lookup(Entries(disk), call.url) = text
            /\ disk.mode \in {"rw", "r"}
                 => /\ call.url \in Keys(Logical(disk))
                    /\ Lookup(Logical(disk), call.url) = text)
  /\ [][(pc = "Fetch" /\ call'.kind = "hit")
         => /\ io' = <<>>
            /\ gets' = gets
            /\ text' = Lookup(CACHE_DICT, call'.url)]_vars

\* the 404 page an earlier process fetched fails to parse again in the next
\* process, which got it from the cache and asked no network
C20_Witness ==
  /\ run = 2
  /\ pc = "Crashed"
  /\ error = "get_site_instance"
  /\ call.kind = "hit"
  /\ call.url = Url2
  /\ text = PyStr(PageError)
  /\ gets[Url2] = 0

=============================================================================
